---- MODULE Spec2Model ----
(***************************************************************************)
(* A model of the bean container of rs-bean (src/src/bean.rs): the         *)
(* identifier scheme, the creation context, the registry map behind its    *)
(* reader/writer lock, registration and the resolution engine              *)
(* get_with_context, with factories that resolve their dependencies        *)
(* through the dependency provider.                                        *)
(*                                                                         *)
(* In Spec, SpecSeq and SpecDeep every critical section of the RwLock is   *)
(* one atomic step and the factory runs between critical sections.  In     *)
(* SpecLock the guards are taken and dropped in steps of their own, so     *)
(* that what a thread holds while its factory runs is part of the state.   *)
(***************************************************************************)
EXTENDS Integers, Sequences, FiniteSets, TLC

(***************************************************************************)
(* Bounds of the model.                                                    *)
(***************************************************************************)
\* register / register_named calls made on one container
MaxRegs == 2
\* top-level get / get_named calls made on one container
MaxGets == 2
\* longest chain of beans, each depending on the next, of the deep registries
MaxChain == 102

\* the depth bound of CreationContext::enter
MaxDepth == 100

\* the bean types and bean names of the small registries
Types == {1, 2}
Names == {1}
\* the bean types of the registries resolved concurrently
ConcTypes == {1}
Threads == {"t1", "t2"}
SeqThreads == {"t1"}
\* the thread that registers while the others resolve
Registrar == "main"

(***************************************************************************)
(* Scope, Option and Identifier.                                           *)
(***************************************************************************)
Scope == {"Singleton", "Prototype"}

None == <<>>
Some(x) == <<x>>

named(n) == <<"Named", n>>
type_spec(T) == <<"TypeSpec", T>>
unnamed(T) == <<"Unnamed", T>>

\* impl Display for Identifier: Named and TypeSpec print alike, Unnamed is
\* marked
Display(id) ==
    IF id[1] = "Unnamed" THEN <<"Bean", id[2], "[unnamed]">>
    ELSE <<"Bean", id[2]>>

\* the " -> " join of the printed identifiers, kept as the sequence of parts
get_path(creating) == [i \in 1..Len(creating) |-> Display(creating[i])]

(***************************************************************************)
(* CreationContext.                                                        *)
(***************************************************************************)
\* enter as it would be if the cycle check looked at the top of the stack
\* only
enter_top_only(creating, id) ==
    IF Len(creating) > MaxDepth
    THEN [kind |-> "TooDeep", chain |-> <<>>, creating |-> creating]
    ELSE IF Len(creating) > 0 /\ creating[Len(creating)] = id
    THEN [kind |-> "Circular",
          chain |-> Append(get_path(creating), Display(id)),
          creating |-> creating]
    ELSE [kind |-> "Ok", chain |-> <<>>, creating |-> Append(creating, id)]

enter(creating, id) ==
    IF Len(creating) > MaxDepth
    THEN [kind |-> "TooDeep", chain |-> <<>>, creating |-> creating]
    ELSE IF \E i \in 1..Len(creating) : creating[i] = id
    THEN [kind |-> "Circular",
          chain |-> Append(get_path(creating), Display(id)),
          creating |-> creating]
    ELSE [kind |-> "Ok", chain |-> <<>>, creating |-> Append(creating, id)]

\* Vec::pop: nothing happens on an empty vector
exit(creating) ==
    IF Len(creating) = 0 THEN creating
    ELSE SubSeq(creating, 1, Len(creating) - 1)

(***************************************************************************)
(* Factories, instances and bean definitions.                              *)
(*                                                                         *)
(* A factory closure is what it does: the dependencies it requests from    *)
(* the provider, in order and each with `?`, and whether it then returns   *)
(* Err. reg is the registration that made the closure (the identity of the *)
(* Arc<dyn BeanFactory>), ty the type T its instances have.                *)
(***************************************************************************)
Dep(T, name) == [ty |-> T, name |-> name]

\* the factories of the small registries: a bean of type 1 has no
\* dependencies and its factory may fail, a bean of type 2 requests the
\* bean of type 1 once or twice and may fail after that
FactoriesOf(T) ==
    IF T = 1
    THEN { [deps |-> <<>>, fails |-> FALSE], [deps |-> <<>>, fails |-> TRUE] }
    ELSE { [deps |-> <<Dep(1, None)>>, fails |-> FALSE],
           [deps |-> <<Dep(1, None)>>, fails |-> TRUE],
           [deps |-> <<Dep(1, None), Dep(1, None)>>, fails |-> FALSE] }

\* the factories of the registries resolved concurrently
ConcFactories ==
    { [deps |-> <<>>, fails |-> FALSE],
      [deps |-> <<Dep(1, None)>>, fails |-> FALSE] }

BeanFactory(reg, T, f) ==
    [reg |-> reg, ty |-> T, deps |-> f.deps, fails |-> f.fails]

NoFactory == [reg |-> 0, ty |-> 0, deps |-> <<>>, fails |-> FALSE]

\* Arc::new(instance): n is the identity of the allocation
Instance(n, factory) == [n |-> n, ty |-> factory.ty, reg |-> factory.reg]

BeanDefinition(factory, scope) ==
    [factory |-> factory, scope |-> scope, instance |-> None]

contains_key(map, id) == id \in DOMAIN map

insert(map, id, definition) ==
    [k \in DOMAIN map \cup {id} |-> IF k = id THEN definition ELSE map[k]]

remove(map, id) == [k \in DOMAIN map \ {id} |-> map[k]]

(***************************************************************************)
(* The state.                                                              *)
(***************************************************************************)
VARIABLES
    beans,      \* BeanContainer.beans: Identifier -> BeanDefinition
    frames,     \* per thread, the active get_with_context calls, outermost first
    ctx,        \* per thread, CreationContext.creating of its top-level call
    last,       \* the outcome of the call that returned in this step, if any
    got,        \* the <<identifier, instance>> pairs returned so far
    ncreate,    \* factory invocations so far
    ngets,      \* top-level calls so far
    nreg,       \* registration calls so far
    lastReg,    \* the outcome of the registration call made last
    made,       \* the instances the factories have returned so far
    panicked,   \* the threads that a failed unwrap has ended
    asked,      \* the contains call made in this step, if any, and its answer
    hold        \* per thread, the guard of the RwLock it holds, if any

vars == <<beans, frames, ctx, last, got, ncreate, ngets, nreg, lastReg,
          made, panicked, asked, hold>>

\* the variables of the container and its callers, the lock apart
data == <<beans, frames, ctx, last, got, ncreate, ngets, nreg, lastReg,
          made, panicked, asked>>

(***************************************************************************)
(* Registration.                                                           *)
(***************************************************************************)
\* register as it would be without the removal of the Unnamed entry
register_map_keep_unnamed(map, T, definition) ==
    IF contains_key(map, type_spec(T))
    THEN [ok |-> FALSE, beans |-> map]
    ELSE [ok |-> TRUE, beans |-> insert(map, type_spec(T), definition)]

\* register as it would be if it inserted before it checked
register_map_insert_first(map, T, definition) ==
    IF contains_key(map, type_spec(T))
    THEN [ok |-> FALSE, beans |-> insert(map, type_spec(T), definition)]
    ELSE [ok |-> TRUE,
          beans |-> insert(remove(map, unnamed(T)), type_spec(T), definition)]

\* register, lines 159-170, on the map: the result and the map left behind
register_map(map, T, definition) ==
    IF contains_key(map, type_spec(T))
    THEN [ok |-> FALSE, beans |-> map]
    ELSE [ok |-> TRUE,
          beans |-> insert(remove(map, unnamed(T)), type_spec(T), definition)]

\* register_named as it would be if Rule 1 did not look for the TypeSpec
register_named_map_no_type_spec_check(map, name, T, definition) ==
    IF contains_key(map, named(name))
    THEN [ok |-> FALSE, beans |-> map]
    ELSE LET m1 == insert(map, named(name), definition)
         IN  [ok |-> TRUE,
              beans |-> IF ~contains_key(m1, unnamed(T))
                        THEN insert(m1, unnamed(T), definition)
                        ELSE m1]

\* register_named as it would be if it did not look for the Named entry
register_named_map_replace(map, name, T, definition) ==
    LET m1 == insert(map, named(name), definition)
    IN  [ok |-> TRUE,
         beans |-> IF ~contains_key(m1, type_spec(T))
                      /\ ~contains_key(m1, unnamed(T))
                   THEN insert(m1, unnamed(T), definition)
                   ELSE m1]

\* register_named, lines 193-213, on the map
register_named_map(map, name, T, definition) ==
    IF contains_key(map, named(name))
    THEN [ok |-> FALSE, beans |-> map]
    ELSE LET m1 == insert(map, named(name), definition)
         IN  [ok |-> TRUE,
              beans |-> IF ~contains_key(m1, type_spec(T))
                           /\ ~contains_key(m1, unnamed(T))
                        THEN insert(m1, unnamed(T), definition)
                        ELSE m1]

NoLast ==
    [thread |-> "none", kind |-> "None", inst |-> None, chain |-> <<>>, id |-> None, ty |-> 0,
     name |-> None, scope |-> "unknown", path |-> "none", entry |-> <<>>,
     exit |-> <<>>, anc |-> {}, top |-> FALSE, fresh |-> FALSE,
     unchanged |-> FALSE, nofactory |-> FALSE, hadTypeSpec |-> FALSE]

\* a guard of the RwLock: mode is "read" or "write", of the critical
\* section whose block it lives in
Guard(mode, of) == [mode |-> mode, of |-> of]
NoGuard == Guard("none", "none")

NoAsk == [ty |-> 0, name |-> None, result |-> FALSE]

NoReg == [op |-> "none", ty |-> 0, name |-> None, ok |-> FALSE,
          hadDefault |-> FALSE, hadFallback |-> FALSE, hadNamed |-> FALSE]

register(T, scope, f) ==
    /\ nreg < MaxRegs
    /\ LET r == register_map(beans, T,
                    BeanDefinition(BeanFactory(nreg + 1, T, f), scope))
       IN  /\ beans' = r.beans
           /\ lastReg' = [op |-> "register", ty |-> T, name |-> None,
                          ok |-> r.ok,
                          hadDefault |-> contains_key(beans, type_spec(T)),
                          hadFallback |-> contains_key(beans, unnamed(T)),
                          hadNamed |-> FALSE]
    /\ nreg' = nreg + 1
    /\ last' = NoLast
    /\ asked' = NoAsk
    /\ UNCHANGED <<frames, ctx, got, ncreate, ngets, made, panicked>>

register_named(name, T, scope, f) ==
    /\ nreg < MaxRegs
    /\ LET r == register_named_map(beans, name, T,
                    BeanDefinition(BeanFactory(nreg + 1, T, f), scope))
       IN  /\ beans' = r.beans
           /\ lastReg' = [op |-> "register_named", ty |-> T,
                          name |-> Some(name), ok |-> r.ok,
                          hadDefault |-> contains_key(beans, type_spec(T)),
                          hadFallback |-> contains_key(beans, unnamed(T)),
                          hadNamed |-> contains_key(beans, named(name))]
    /\ nreg' = nreg + 1
    /\ last' = NoLast
    /\ asked' = NoAsk
    /\ UNCHANGED <<frames, ctx, got, ncreate, ngets, made, panicked>>

(***************************************************************************)
(* Results and resolution frames.                                          *)
(***************************************************************************)
\* Result<Arc<T>, String>: kind is "Ok" or the error; chain is the chain a
\* CircularDependency message lists
Ok(inst) == [kind |-> "Ok", inst |-> Some(inst), chain |-> <<>>]
Err(kind, chain) == [kind |-> kind, inst |-> None, chain |-> chain]
NoResult == [kind |-> "None", inst |-> None, chain |-> <<>>]

IsErr(res) == res.kind \notin {"None", "Ok"}

\* Arc<dyn Any>::downcast::<T>().map_err(..)
downcast(inst, T) ==
    IF inst.ty = T THEN Ok(inst) ELSE Err("TypeMismatch", <<>>)

\* One call of get_with_context::<T>(name, context). pc is the place the
\* call has reached; entry and anc record the context and the identifiers
\* of the enclosing calls at the moment of the call, invoked and wrote
\* whether the call (nested calls included) has invoked a factory and has
\* changed the map.
Frame(T, name, creating, enclosing) ==
    [ty |-> T, name |-> name, id |-> None, pc |-> "check",
     factory |-> NoFactory, scope |-> "unknown", inv |-> 0, di |-> 1,
     sub |-> NoResult, inst |-> None, hadTypeSpec |-> FALSE,
     entry |-> creating, anc |-> enclosing, invoked |-> FALSE,
     wrote |-> FALSE]

Top(t) == frames[t][Len(frames[t])]

SetTop(t, f) == [frames EXCEPT ![t][Len(frames[t])] = f]

At(t, pc) == Len(frames[t]) > 0 /\ Top(t).pc = pc

\* Result::unwrap, lines 219 and 225: the value, or a panic of the calling
\* thread
unwrap(res) == IF res.kind = "Ok" THEN "value" ELSE "panic"

\* The call f of thread t, made over the enclosing calls `below`, returns
\* res and leaves the context as `creating` and the map as `map`: a nested
\* call hands res to the factory of the enclosing call, a top-level call to
\* get or get_named, which unwrap it.
Return(t, below, f, res, creating, path, map) ==
    LET n == Len(below)
    IN  /\ frames' =
              [frames EXCEPT ![t] =
                  [i \in 1..n |->
                      [below[i] EXCEPT
                          !.sub = IF i = n THEN res ELSE @,
                          !.wrote = @ \/ map # beans]]]
        /\ ctx' = [ctx EXCEPT ![t] = creating]
        /\ last' =
              [thread |-> t, kind |-> res.kind, inst |-> res.inst,
               chain |-> res.chain, id |-> f.id, ty |-> f.ty,
               name |-> f.name, scope |-> f.scope, path |-> path,
               entry |-> f.entry, exit |-> creating, anc |-> f.anc,
               top |-> (n = 0),
               fresh |-> /\ res.kind = "Ok"
                         /\ \A p \in got : p[2].n # res.inst[1].n,
               unchanged |-> (~f.wrote /\ map = beans),
               nofactory |-> ~f.invoked,
               hadTypeSpec |-> f.hadTypeSpec]
        /\ got' = IF res.kind = "Ok"
                  THEN got \cup {<<f.id[1], res.inst[1]>>}
                  ELSE got
        /\ panicked' = IF n = 0 /\ unwrap(res) = "panic"
                       THEN panicked \cup {t}
                       ELSE panicked
        /\ asked' = NoAsk

\* the calls that enclose the call on top
Below(t) == SubSeq(frames[t], 1, Len(frames[t]) - 1)

(***************************************************************************)
(* Resolution: try_get, Dependencies::get_named and get_with_context.      *)
(* A step is one critical section of the lock together with the            *)
(* lock-free code that leads to it.                                        *)
(***************************************************************************)
\* the key as it would be if a name without entry fell back to the type
resolve_id_name_falls_back(map, T, name) ==
    IF name # None /\ contains_key(map, named(name[1]))
    THEN Some(named(name[1]))
    ELSE IF contains_key(map, type_spec(T)) THEN Some(type_spec(T))
    ELSE IF contains_key(map, unnamed(T)) THEN Some(unnamed(T))
    ELSE None

\* lines 242-257: the key to look up, None when the bean is not found
resolve_id(map, T, name) ==
    IF name # None THEN Some(named(name[1]))
    ELSE IF contains_key(map, type_spec(T)) THEN Some(type_spec(T))
    ELSE IF contains_key(map, unnamed(T)) THEN Some(unnamed(T))
    ELSE None

\* lines 242-260 of a call f0 just made over `below` with the context
\* `creating`: resolve the identifier and enter it
Resolve(t, below, f0, creating) ==
    LET f == [f0 EXCEPT
                 !.hadTypeSpec = contains_key(beans, type_spec(f0.ty))]
        id == resolve_id(beans, f.ty, f.name)
    IN  IF id = None
        THEN Return(t, below, f, Err("NotFound", <<>>), creating,
                    "notfound", beans)
        ELSE LET e == enter(creating, id[1])
                 g == [f EXCEPT !.id = id]
             IN  IF e.kind # "Ok"
                 THEN Return(t, below, g, Err(e.kind, e.chain), e.creating,
                             IF e.kind = "Circular" THEN "circular"
                             ELSE "toodeep", beans)
                 ELSE /\ frames' = [frames EXCEPT ![t] =
                              Append(below, [g EXCEPT !.pc = "check"])]
                      /\ ctx' = [ctx EXCEPT ![t] = e.creating]
                      /\ last' = NoLast
                      /\ asked' = NoAsk
                      /\ UNCHANGED <<got, panicked>>

\* get and get_named, lines 218-226, call try_get, lines 228-234, then
\* lines 242-260: a fresh context and the outermost get_with_context up to
\* enter
try_get(t, T, name) ==
    /\ frames[t] = <<>>
    /\ t \notin panicked
    /\ ngets < MaxGets
    /\ Resolve(t, <<>>, Frame(T, name, <<>>, {}), <<>>)
    /\ ngets' = ngets + 1
    /\ UNCHANGED <<beans, ncreate, nreg, lastReg, made>>

\* the cache as it would be if a stored instance were never seen
cached_never(map, id) == None

\* lines 265-267 and 283-284: the cached instance of a singleton, if any
cached(map, id) ==
    IF contains_key(map, id) /\ map[id].scope = "Singleton"
    THEN map[id].instance
    ELSE None

\* lines 269-272: what the fast path leaves of the context when it returns
hit_return(creating) == creating

\* lines 263-274: the singleton fast path
CacheCheck(t) ==
    /\ At(t, "check")
    /\ LET f == Top(t)
           c == cached(beans, f.id[1])
       IN  IF c # None
           THEN Return(t, Below(t), [f EXCEPT !.scope = beans[f.id[1]].scope],
                       downcast(c[1], f.ty), hit_return(ctx[t]),
                       "hit", beans)
           ELSE /\ frames' = SetTop(t, [f EXCEPT !.pc = "lookup"])
                /\ last' = NoLast
                /\ asked' = NoAsk
                /\ UNCHANGED <<ctx, got, panicked>>
    /\ UNCHANGED <<beans, ncreate, ngets, nreg, lastReg, made>>

\* lines 277-293 (and 315-316 when the closure returns early): look the
\* definition up again and take its factory, which is invoked with no lock
\* held
Lookup(t) ==
    /\ At(t, "lookup")
    /\ LET f == Top(t)
           id == f.id[1]
       IN  IF ~contains_key(beans, id)
           THEN /\ Return(t, Below(t), f, Err("NotFound", <<>>),
                          exit(ctx[t]), "notfound2", beans)
                /\ UNCHANGED ncreate
           ELSE IF cached(beans, id) # None
           THEN /\ Return(t, Below(t), [f EXCEPT !.scope = beans[id].scope],
                          downcast(cached(beans, id)[1], f.ty),
                          exit(ctx[t]), "hit2", beans)
                /\ UNCHANGED ncreate
           ELSE /\ frames' = [frames EXCEPT ![t] =
                      [i \in 1..Len(frames[t]) |->
                          IF i < Len(frames[t])
                          THEN [frames[t][i] EXCEPT !.invoked = TRUE]
                          ELSE [f EXCEPT !.pc = "factory",
                                         !.factory = beans[id].factory,
                                         !.scope = beans[id].scope,
                                         !.inv = ncreate + 1,
                                         !.di = 1,
                                         !.invoked = TRUE]]]
                /\ ncreate' = ncreate + 1
                /\ last' = NoLast
                /\ asked' = NoAsk
                /\ UNCHANGED <<ctx, got, panicked>>
    /\ UNCHANGED <<beans, ngets, nreg, lastReg, made>>

\* Dependencies::get_named, lines 106-111, then lines 242-260: the factory
\* of the call on top requests its next dependency with the context it was
\* given
FactoryDep(t) ==
    /\ At(t, "factory")
    /\ LET f == Top(t)
       IN  /\ ~IsErr(f.sub)
           /\ f.di <= Len(f.factory.deps)
           /\ Resolve(t,
                 Append(Below(t), [f EXCEPT !.di = f.di + 1, !.sub = NoResult]),
                 Frame(f.factory.deps[f.di].ty, f.factory.deps[f.di].name,
                       ctx[t],
                       {frames[t][i].id[1] : i \in 1..Len(frames[t])}),
                 ctx[t])
    /\ UNCHANGED <<beans, ncreate, ngets, nreg, lastReg, made>>

\* lines 149 and 299: a dependency failed and `?` hands its error on, or
\* the factory itself returns Err; then lines 315-316
FactoryErr(t) ==
    /\ At(t, "factory")
    /\ LET f == Top(t)
       IN  \/ /\ IsErr(f.sub)
              /\ Return(t, Below(t), f, f.sub, exit(ctx[t]), "dep-error",
                        beans)
           \/ /\ ~IsErr(f.sub)
              /\ f.di > Len(f.factory.deps)
              /\ f.factory.fails
              /\ Return(t, Below(t), f, Err("FactoryError", <<>>),
                        exit(ctx[t]), "factory-error", beans)
    /\ UNCHANGED <<beans, ncreate, ngets, nreg, lastReg, made>>

\* the publication as it would be if the new instance were never stored
publish_map_never(map, id, scope, new_instance) == map

\* the publication as it would be with neither the test of the scope nor
\* the test for an instance stored already
publish_map_overwrite(map, id, scope, new_instance) ==
    IF contains_key(map, id)
    THEN [map EXCEPT ![id].instance = Some(new_instance)]
    ELSE map

\* lines 301-308: store the new instance unless one is stored already
publish_map(map, id, scope, new_instance) ==
    IF scope = "Singleton" /\ contains_key(map, id)
       /\ map[id].instance = None
    THEN [map EXCEPT ![id].instance = Some(new_instance)]
    ELSE map

\* lines 310-312: the instance the constructing call returns
constructed(map, id, new_instance) == new_instance

\* lines 148-151 and 299-316: the factory has its dependencies and returns
\* its instance in a new Arc; publish, downcast, exit
Publish(t) ==
    /\ At(t, "factory")
    /\ LET f == Top(t)
           new_instance == Instance(f.inv, f.factory)
           map == publish_map(beans, f.id[1], f.scope, new_instance)
       IN  /\ ~IsErr(f.sub)
           /\ f.di > Len(f.factory.deps)
           /\ ~f.factory.fails
           /\ beans' = map
           /\ made' = made \cup {[id |-> f.id[1], inst |-> new_instance,
                                   scope |-> f.scope, at |-> ncreate]}
           /\ Return(t, Below(t), [f EXCEPT !.inst = Some(new_instance)],
                     downcast(constructed(map, f.id[1], new_instance), f.ty),
                     exit(ctx[t]), "constructed", map)
    /\ UNCHANGED <<ncreate, ngets, nreg, lastReg>>

(***************************************************************************)
(* Introspection.                                                          *)
(***************************************************************************)
\* contains as it would be if it looked for the TypeSpec entry only
contains_type_spec_only(map, T, name) ==
    IF name # None THEN contains_key(map, named(name[1]))
    ELSE contains_key(map, type_spec(T))

\* lines 320-329, on the map
contains(map, T, name) ==
    IF name # None THEN contains_key(map, named(name[1]))
    ELSE contains_key(map, type_spec(T)) \/ contains_key(map, unnamed(T))

\* a call of contains::<T>(name), between two steps of the resolutions
contains_call(T, name) ==
    /\ asked' = [ty |-> T, name |-> name, result |-> contains(beans, T, name)]
    /\ last' = NoLast
    /\ UNCHANGED <<beans, frames, ctx, got, ncreate, ngets, nreg, lastReg,
                   made, panicked>>

(***************************************************************************)
(* Specifications.                                                         *)
(***************************************************************************)
Idle ==
    /\ frames = [t \in Threads |-> <<>>]
    /\ ctx = [t \in Threads |-> <<>>]
    /\ last = NoLast
    /\ got = {}
    /\ ncreate = 0
    /\ ngets = 0
    /\ nreg = 0
    /\ lastReg = NoReg
    /\ made = {}
    /\ panicked = {}
    /\ asked = NoAsk
    /\ hold = [t \in Threads \cup {Registrar} |-> NoGuard]

\* BeanContainer::new
Init ==
    /\ beans = <<>>
    /\ Idle

Names0 == {None} \cup {Some(n) : n \in Names}

\* two threads resolve while beans are registered
Next ==
    \/ \E T \in ConcTypes, s \in Scope, f \in ConcFactories :
          register(T, s, f) /\ UNCHANGED hold
    \/ \E n \in Names, T \in ConcTypes, s \in Scope, f \in ConcFactories :
          register_named(n, T, s, f) /\ UNCHANGED hold
    \/ \E t \in Threads, T \in ConcTypes, name \in Names0 :
          try_get(t, T, name) /\ UNCHANGED hold
    \/ \E t \in Threads : CacheCheck(t) /\ UNCHANGED hold
    \/ \E t \in Threads : Lookup(t) /\ UNCHANGED hold
    \/ \E t \in Threads : FactoryDep(t) /\ UNCHANGED hold
    \/ \E t \in Threads : FactoryErr(t) /\ UNCHANGED hold
    \/ \E t \in Threads : Publish(t) /\ UNCHANGED hold

Spec == Init /\ [][Next]_vars

\* one thread registers and resolves, one call after the other
NoCall == \A t \in Threads : frames[t] = <<>> /\ t \notin panicked

NextSeq ==
    \/ \E T \in Types, s \in Scope : \E f \in FactoriesOf(T) :
          NoCall /\ register(T, s, f) /\ UNCHANGED hold
    \/ \E n \in Names, T \in Types, s \in Scope : \E f \in FactoriesOf(T) :
          NoCall /\ register_named(n, T, s, f) /\ UNCHANGED hold
    \/ \E t \in SeqThreads, T \in Types, name \in Names0 :
          try_get(t, T, name) /\ UNCHANGED hold
    \/ \E t \in SeqThreads : CacheCheck(t) /\ UNCHANGED hold
    \/ \E t \in SeqThreads : Lookup(t) /\ UNCHANGED hold
    \/ \E t \in SeqThreads : FactoryDep(t) /\ UNCHANGED hold
    \/ \E t \in SeqThreads : FactoryErr(t) /\ UNCHANGED hold
    \/ \E t \in SeqThreads : Publish(t) /\ UNCHANGED hold
    \/ \E t \in SeqThreads, T \in Types, name \in Names0 :
          t \notin panicked /\ contains_call(T, name) /\ UNCHANGED hold

SpecSeq == Init /\ [][NextSeq]_vars

(***************************************************************************)
(* Deep registries: beans 1..N registered by register::<T>, each the only  *)
(* dependency of the one before; the last one requests `tail`. A bean      *)
(* without dependencies, Leaf, is registered as well.                      *)
(***************************************************************************)
ChainLens == {2} \cup ((MaxChain - 2)..MaxChain)

\* a type and a name that no deep registry holds
Unregistered == MaxChain + 1

Leaf == MaxChain + 2

ChainTails(N) ==
    { <<>>, <<Dep(1, None)>>, <<Dep(N, None)>>, <<Dep(Unregistered, None)>>,
      <<Dep(1, Some(1))>>, <<Dep(Leaf, None), Dep(Leaf, None), Dep(Leaf, None)>> }

ChainBeans(N, tail, scope) ==
    [id \in {type_spec(i) : i \in 1..N} \cup {type_spec(Leaf)} |->
        BeanDefinition(
            BeanFactory(IF id[2] = Leaf THEN N + 1 ELSE id[2], id[2],
                [deps |-> IF id[2] < N THEN <<Dep(id[2] + 1, None)>>
                          ELSE IF id[2] = N THEN tail ELSE <<>>,
                 fails |-> FALSE]),
            scope)]

InitDeep ==
    /\ \E N \in ChainLens, s \in Scope : \E tail \in ChainTails(N) :
          /\ beans = ChainBeans(N, tail, s)
          /\ nreg = N + 1
          /\ lastReg = [NoReg EXCEPT !.op = "register", !.ty = Leaf,
                                     !.ok = TRUE]
    /\ frames = [t \in Threads |-> <<>>]
    /\ ctx = [t \in Threads |-> <<>>]
    /\ last = NoLast
    /\ got = {}
    /\ ncreate = 0
    /\ ngets = 0
    /\ made = {}
    /\ panicked = {}
    /\ asked = NoAsk
    /\ hold = [t \in Threads \cup {Registrar} |-> NoGuard]

NextDeep ==
    \/ \E t \in SeqThreads, T \in {1, Unregistered}, name \in Names0 :
          try_get(t, T, name) /\ UNCHANGED hold
    \/ \E t \in SeqThreads : CacheCheck(t) /\ UNCHANGED hold
    \/ \E t \in SeqThreads : Lookup(t) /\ UNCHANGED hold
    \/ \E t \in SeqThreads : FactoryDep(t) /\ UNCHANGED hold
    \/ \E t \in SeqThreads : FactoryErr(t) /\ UNCHANGED hold
    \/ \E t \in SeqThreads : Publish(t) /\ UNCHANGED hold

SpecDeep == InitDeep /\ [][NextDeep]_vars

(***************************************************************************)
(* The lock, step by step: a critical section is acquired in one step and  *)
(* executed and left in the next, so that the threads wait for each        *)
(* other. Registrations are made by a thread of their own; the other       *)
(* threads call get::<T>().                                                *)
(***************************************************************************)
Holders == Threads \cup {Registrar}

\* RwLock::read: granted unless a writer holds the lock
can_read(h) == \A u \in DOMAIN h : h[u].mode # "write"

\* RwLock::write: granted when nobody, the caller included, holds the lock
can_write(h) == \A u \in DOMAIN h : h[u].mode = "none"

\* the guard that the critical section which thread t executes next takes:
\* lines 249, 264, 278 and 302; none when its next step takes no lock
Pending(t) ==
    IF frames[t] = <<>> THEN Guard("read", "resolve")
    ELSE LET f == Top(t)
         IN  IF f.pc = "check" THEN Guard("read", "check")
             ELSE IF f.pc = "lookup" THEN Guard("read", "lookup")
             ELSE IF IsErr(f.sub) THEN NoGuard
             ELSE IF f.di <= Len(f.factory.deps)
             THEN IF f.factory.deps[f.di].name = None
                  THEN Guard("read", "resolve")
                  ELSE NoGuard
             ELSE IF ~f.factory.fails /\ f.scope = "Singleton"
             THEN Guard("write", "publish")
             ELSE NoGuard

\* the unnamed get calls that have their lock and have not begun
Begun == {u \in Threads : frames[u] = <<>> /\ hold[u] # NoGuard}

\* self.beans.read() or write() of the next critical section of thread t:
\* the thread waits until the lock is granted
Acquire(t) ==
    /\ hold[t] = NoGuard
    /\ Pending(t) # NoGuard
    /\ frames[t] = <<>> =>
          /\ t \notin panicked
          /\ ngets + Cardinality(Begun) < MaxGets
    /\ IF Pending(t).mode = "read" THEN can_read(hold) ELSE can_write(hold)
    /\ hold' = [hold EXCEPT ![t] = Pending(t)]
    /\ UNCHANGED data

\* lines 159 and 193: self.beans.write() of a registration
AcquireRegistrar ==
    /\ hold[Registrar] = NoGuard
    /\ nreg < MaxRegs
    /\ can_write(hold)
    /\ hold' = [hold EXCEPT ![Registrar] = Guard("write", "register")]
    /\ UNCHANGED data

\* the guard of lines 277-293 as it would be if it lived to the end of the
\* closure
lookup_guard_kept(g) == g

\* lines 277-293: the guard `beans` lives in the block that yields
\* (factory, scope) and is dropped at its end, before the factory is invoked
lookup_guard(g) == NoGuard

\* the end of the block a guard lives in: lines 257, 274, 308, 170 and 213
drop(g) == NoGuard

LockedRegister(T, scope, f) ==
    /\ hold[Registrar] = Guard("write", "register")
    /\ register(T, scope, f)
    /\ hold' = [hold EXCEPT ![Registrar] = drop(@)]

LockedRegisterNamed(name, T, scope, f) ==
    /\ hold[Registrar] = Guard("write", "register")
    /\ register_named(name, T, scope, f)
    /\ hold' = [hold EXCEPT ![Registrar] = drop(@)]

\* get::<T>() resolves its identifier under the reader lock
LockedGet(t, T) ==
    /\ hold[t] = Guard("read", "resolve")
    /\ try_get(t, T, None)
    /\ hold' = [hold EXCEPT ![t] = drop(@)]

LockedCacheCheck(t) ==
    /\ hold[t] = Guard("read", "check")
    /\ CacheCheck(t)
    /\ hold' = [hold EXCEPT ![t] = drop(@)]

LockedLookup(t) ==
    /\ hold[t] = Guard("read", "lookup")
    /\ Lookup(t)
    /\ hold' = [hold EXCEPT ![t] = lookup_guard(@)]

LockedFactoryDep(t) ==
    /\ hold[t] = Pending(t)
    /\ FactoryDep(t)
    /\ hold' = [hold EXCEPT ![t] = drop(@)]

UnlockedFactoryErr(t) ==
    /\ hold[t] = NoGuard
    /\ FactoryErr(t)
    /\ UNCHANGED hold

LockedPublish(t) ==
    /\ hold[t] = Pending(t)
    /\ Publish(t)
    /\ hold' = [hold EXCEPT ![t] = drop(@)]

\* the steps of thread t
ThreadNext(t) ==
    \/ Acquire(t)
    \/ \E T \in ConcTypes : LockedGet(t, T)
    \/ LockedCacheCheck(t)
    \/ LockedLookup(t)
    \/ LockedFactoryDep(t)
    \/ UnlockedFactoryErr(t)
    \/ LockedPublish(t)

RegistrarNext ==
    \/ AcquireRegistrar
    \/ \E T \in ConcTypes, s \in Scope, f \in ConcFactories :
          LockedRegister(T, s, f)
    \/ \E n \in Names, T \in ConcTypes, s \in Scope, f \in ConcFactories :
          LockedRegisterNamed(n, T, s, f)

NextLock ==
    \/ AcquireRegistrar
    \/ \E T \in ConcTypes, s \in Scope, f \in ConcFactories :
          LockedRegister(T, s, f)
    \/ \E n \in Names, T \in ConcTypes, s \in Scope, f \in ConcFactories :
          LockedRegisterNamed(n, T, s, f)
    \/ \E t \in Threads : Acquire(t)
    \/ \E t \in Threads, T \in ConcTypes : LockedGet(t, T)
    \/ \E t \in Threads : LockedCacheCheck(t)
    \/ \E t \in Threads : LockedLookup(t)
    \/ \E t \in Threads : LockedFactoryDep(t)
    \/ \E t \in Threads : UnlockedFactoryErr(t)
    \/ \E t \in Threads : LockedPublish(t)

SpecLock == Init /\ [][NextLock]_vars

(***************************************************************************)
(* Properties.                                                             *)
(***************************************************************************)
Returned == last.kind # "None"

\* C1: all get calls that resolve a Singleton bean, concurrent first-time
\* calls included, return the instance published in the cache of its
\* definition.
C1_AllObserveThePublished ==
    \A p \in got :
        (contains_key(beans, p[1]) /\ beans[p[1]].scope = "Singleton")
            => beans[p[1]].instance = Some(p[2])

\* C2: every call of get_with_context, on every return path, leaves the
\* creation stack as it was when the call was made.
C2_ContextRestored == Returned => last.exit = last.entry

\* C3: a call fails at enter with CircularDependency only if its identifier
\* is under construction in an enclosing call of the same top-level call.
C3_CircularOnlyForCycle ==
    (Returned /\ last.path = "circular") => last.id[1] \in last.anc

\* the call that returned requested an identifier that was on the creation
\* stack already
Repeated ==
    /\ Returned
    /\ last.id # None
    /\ \E i \in 1..Len(last.entry) : last.entry[i] = last.id[1]

PathOf(creating, id) == Append(get_path(creating), Display(id))

C9_StackAtMost100 == \A t \in Threads : Len(ctx[t]) <= MaxDepth

\* no entry of the map answers a get::<T>() (name = None) or a
\* get_named::<T>(name)
Absent(map, T, name) ==
    IF name # None THEN ~contains_key(map, named(name[1]))
    ELSE ~contains_key(map, type_spec(T)) /\ ~contains_key(map, unnamed(T))

C5_SingletonSharedPrototypeFresh ==
    /\ \A p, q \in got :
          (/\ p[1] = q[1]
           /\ contains_key(beans, p[1])
           /\ beans[p[1]].scope = "Singleton") => p[2] = q[2]
    /\ (Returned /\ last.kind = "Ok" /\ last.scope = "Prototype") =>
          /\ last.path = "constructed"
          /\ last.fresh

\* a Singleton registered by register was returned from the cache after a
\* Prototype registered by register had been returned twice
C5_Witness ==
    /\ Returned
    /\ last.kind = "Ok"
    /\ last.path = "hit"
    /\ last.id[1][1] = "TypeSpec"
    /\ \E p, q \in got :
          /\ p[1] = q[1]
          /\ p[1][1] = "TypeSpec"
          /\ p[2] # q[2]

\* C6: register_named::<T> without a type-default makes get::<T>() resolve
\* through the fallback; a later register::<T> succeeds and removes the
\* fallback, and every unnamed get::<T>() made after it resolves the
\* type-default and returns an instance of the type-default's factory.
C6_DefaultSupersedesFallback ==
    /\ (lastReg.op = "register_named" /\ lastReg.ok /\ ~lastReg.hadDefault) =>
          resolve_id(beans, lastReg.ty, None) = Some(unnamed(lastReg.ty))
    /\ (lastReg.op = "register" /\ lastReg.hadFallback) =>
          /\ lastReg.ok
          /\ ~contains_key(beans, unnamed(lastReg.ty))
          /\ contains_key(beans, type_spec(lastReg.ty))
    /\ (Returned /\ last.name = None /\ last.hadTypeSpec) =>
          /\ last.id = Some(type_spec(last.ty))
          /\ last.kind = "Ok" =>
                last.inst[1].reg = beans[type_spec(last.ty)].factory.reg

\* an unnamed get returned the type-default's instance after the fallback,
\* whose instance an earlier unnamed get had returned, was superseded
C6_Witness ==
    /\ lastReg.op = "register" /\ lastReg.hadFallback
    /\ Returned /\ last.name = None /\ last.hadTypeSpec /\ last.kind = "Ok"
    /\ \E p \in got : p[1] = unnamed(last.ty) /\ p[2] # last.inst[1]

\* C7: for each type the map holds at most one of TypeSpec(T), Unnamed(T).
C7_AtMostOneUnnamedEntry ==
    \A id \in DOMAIN beans :
        id[1] = "Unnamed" => ~contains_key(beans, type_spec(id[2]))

\* a named bean was registered for a type that had its type-default, a call
\* being under way
C7_Witness ==
    /\ lastReg.op = "register_named" /\ lastReg.ok /\ lastReg.hadDefault
    /\ contains_key(beans, type_spec(lastReg.ty))
    /\ \E t \in Threads : frames[t] # <<>>

\* C8: register::<T> fails exactly when TypeSpec(T) is in the map,
\* register_named(name) exactly when Named(name) is, and a registration that
\* fails leaves the map as it was.
C8_FailsIffRegisteredAndKeepsMap ==
    [][nreg' # nreg =>
          /\ lastReg'.op = "register" =>
                (lastReg'.ok <=> ~contains_key(beans, type_spec(lastReg'.ty)))
          /\ lastReg'.op = "register_named" =>
                (lastReg'.ok <=> ~contains_key(beans, named(lastReg'.name[1])))
          /\ ~lastReg'.ok => beans' = beans]_vars

\* a second register::<T> failed when the first one's singleton was cached
C8_Witness ==
    /\ lastReg.op = "register" /\ ~lastReg.ok
    /\ cached(beans, type_spec(lastReg.ty)) # None

\* C11: no failure of a top-level get or get_named panics the calling
\* thread; every failure reaches the caller as an error value.
C11_FailureIsAResult == panicked = {}

\* two constructions of one Singleton definition
Twice(p, q) ==
    /\ p # q
    /\ p.id = q.id
    /\ p.scope = "Singleton"
    /\ q.scope = "Singleton"

\* C12: under any interleaving, the factory of a Singleton definition
\* returns an instance at most once.
C12_ConstructedAtMostOnce == \A p, q \in made : ~Twice(p, q)

\* C12, amended: two constructions of one Singleton definition overlap:
\* neither factory invocation starts after the other has returned its
\* instance and passed the publication, so that calls made one after the
\* other construct at most once.
C12_ConstructionsOverlap ==
    \A p, q \in made : Twice(p, q) => p.inst.n <= q.at /\ q.inst.n <= p.at

\* two racing calls have both constructed a singleton; one instance is
\* cached and the other was returned
C12_Witness ==
    \E p, q \in made :
        /\ Twice(p, q)
        /\ cached(beans, p.id) = Some(p.inst)
        /\ <<q.id, q.inst>> \in got

\* C13: no resolution returns TypeMismatch.
C13_NoTypeMismatch == Returned => last.kind # "TypeMismatch"

\* a cache holds an instance only if the scope of its definition is
\* Singleton
CacheOnlyForSingleton ==
    \A id \in DOMAIN beans :
        beans[id].instance # None => beans[id].scope = "Singleton"

\* C14: the cache of a Prototype definition is always empty, and a cached
\* instance is never replaced while its definition stays in the map.
C14_CacheSingletonOnlyWrittenOnce ==
    /\ []CacheOnlyForSingleton
    /\ [][\A id \in DOMAIN beans \cap DOMAIN beans' :
             beans[id].instance # None =>
                 beans'[id].instance = beans[id].instance]_vars

\* a call has constructed a singleton and found another instance cached:
\* the cached one was kept
C14_Witness ==
    /\ Returned
    /\ last.path = "constructed"
    /\ last.scope = "Singleton"
    /\ cached(beans, last.id[1]) # None
    /\ cached(beans, last.id[1]) # last.inst

\* a top-level call has returned an error
Failed == Returned /\ last.top /\ IsErr(last)

\* C16: a top-level get or get_named that returns an error leaves the map
\* as it was when the call began: the same identifiers and the same cached
\* instances.
C16_FailedGetKeepsMap == Failed => last.unchanged

\* the map is changed, if at all, by an instance stored in the empty cache
\* of one Singleton definition
OnlyFillsACache(old, new) ==
    \/ new = old
    \/ \E id \in DOMAIN old :
          /\ old[id].scope = "Singleton"
          /\ old[id].instance = None
          /\ \E m \in made' :
                /\ m.id = id
                /\ new = [old EXCEPT ![id].instance = Some(m.inst)]

\* C16, amended: no step of a resolution, so no call that fails, adds or
\* removes an identifier, changes a factory or a scope or replaces a cached
\* instance; a call that fails may leave filled the empty caches of the
\* Singleton beans it constructed before it failed.
C16_FailedGetOnlyFillsCaches ==
    [][nreg' = nreg => OnlyFillsACache(beans, beans')]_vars

\* a get has failed with its factory's error after the singleton it
\* depends on was constructed and cached
C16_Witness ==
    /\ Failed
    /\ last.kind = "FactoryError"
    /\ ~last.unchanged

\* C17: a Named or TypeSpec entry stays in the map with its factory and
\* scope; an Unnamed entry is removed only by the successful register of its
\* type; no Unnamed entry is created for a type that has its TypeSpec.
C17_OnlyFallbackIsRemoved ==
    [][/\ \A id \in DOMAIN beans :
             /\ id[1] \in {"Named", "TypeSpec"} =>
                   /\ contains_key(beans', id)
                   /\ beans'[id].factory = beans[id].factory
                   /\ beans'[id].scope = beans[id].scope
             /\ (id[1] = "Unnamed" /\ ~contains_key(beans', id)) =>
                   /\ nreg' # nreg
                   /\ lastReg'.op = "register"
                   /\ lastReg'.ok
                   /\ lastReg'.ty = id[2]
       /\ \A id \in DOMAIN beans' \ DOMAIN beans :
             id[1] = "Unnamed" => ~contains_key(beans, type_spec(id[2]))]_vars

\* a register has removed the fallback of a named bean whose own instance
\* is cached
C17_Witness ==
    /\ lastReg.op = "register" /\ lastReg.ok /\ lastReg.hadFallback
    /\ ~contains_key(beans, unnamed(lastReg.ty))
    /\ \E n \in Names : cached(beans, named(n)) # None

\* the identifier resolution of lines 242-257 for (T, name) finds an entry
Finds(map, T, name) ==
    LET id == resolve_id(map, T, name)
    IN  id # None /\ contains_key(map, id[1])

\* a contains call answers as the resolution would and changes nothing
ContainsIsPure ==
    /\ [](asked # NoAsk =>
            asked.result = Finds(beans, asked.ty, asked.name))
    /\ [][asked' # NoAsk =>
            UNCHANGED <<beans, frames, ctx, got, ncreate, ngets, nreg,
                        lastReg, made, panicked>>]_vars

\* C18: contains::<T>(name) changes no state and is true exactly when the
\* identifier resolution for (T, name) finds an entry, that is, exactly when
\* get or get_named for the same (T, name) does not fail with NotFound.
C18_ContainsIffNotNotFound ==
    /\ ContainsIsPure
    /\ []((Returned /\ last.top) =>
            (contains(beans, last.ty, last.name)
                <=> last.kind # "NotFound"))

\* C18, amended: ..., that is, exactly when the lookup of the requested
\* bean itself does not fail with NotFound; the NotFound of a dependency
\* that the bean's factory requests can still be returned.
C18_ContainsIffOwnLookupFinds ==
    /\ ContainsIsPure
    /\ []((Returned /\ last.top) =>
            (contains(beans, last.ty, last.name)
                <=> last.path \notin {"notfound", "notfound2"}))

\* contains has answered true for a type that has only its fallback, in
\* the middle of a resolution
C18_Witness ==
    /\ asked # NoAsk
    /\ asked.result
    /\ asked.name = None
    /\ ~contains_key(beans, type_spec(asked.ty))
    /\ \E t \in Threads : frames[t] # <<>>

\* C19: a get::<T>() that starts when T has its TypeSpec or Unnamed entry
\* never fails with NotFound, whatever is registered while it runs.
C19_ResolvableStaysResolvable ==
    (Returned /\ last.name = None /\ last.id # None) =>
        last.kind # "NotFound"

\* C20: the instances that get_named(name) and get::<T>() construct for a
\* Singleton registered by register_named alone, whose Unnamed entry comes
\* from the same registration, are one and the same.
C20_NamedAndFallbackShare ==
    \A p, q \in made :
        (/\ p.id[1] = "Named"
         /\ q.id[1] = "Unnamed"
         /\ p.inst.reg = q.inst.reg
         /\ p.scope = "Singleton"
         /\ ~contains_key(beans, type_spec(q.id[2]))) => p.inst = q.inst

\* thread t is running a factory: its call on top has taken its factory and
\* has neither returned nor gone on to the lock of a nested resolution or
\* of the publication
InFactory(t) ==
    /\ At(t, "factory")
    /\ hold[t] = NoGuard \/ hold[t] # Pending(t)

\* thread u is inside a critical section, which it can execute and leave
\* without waiting
InCriticalSection(u) ==
    /\ hold[u] # NoGuard
    /\ IF u = Registrar THEN ENABLED RegistrarNext ELSE ENABLED ThreadNext(u)

\* C15: a thread holds no guard of the lock while its factory runs, so
\* that a thread with a call under way, and the registering thread, can
\* either take a step or waits for a thread that is inside a critical
\* section, never for a construction; no state with a call under way is
\* a deadlock.
C15_NoLockWhileFactoryRuns ==
    /\ \A t \in Threads : InFactory(t) => hold[t] = NoGuard
    /\ \A t \in Threads :
          frames[t] # <<>> =>
              \/ ENABLED ThreadNext(t)
              \/ \E u \in Holders \ {t} : InCriticalSection(u)
    /\ nreg < MaxRegs =>
          \/ ENABLED RegistrarNext
          \/ \E u \in Threads : InCriticalSection(u)
    /\ (\E t \in Threads : frames[t] # <<>>) => ENABLED NextLock

\* a registration holds the writer lock while both threads run the factory
\* of the same singleton
C15_Witness ==
    /\ hold[Registrar].mode = "write"
    /\ \E t, u \in Threads :
          /\ t # u
          /\ InFactory(t)
          /\ InFactory(u)
          /\ Top(t).scope = "Singleton"
          /\ Top(t).id = Top(u).id

====
